---- MODULE Spec2Model ----
(***************************************************************************)
(* A state-machine model of analyze_fire_data.py: a run of main(), from     *)
(* parse_args to process exit, over a small delimited text file; and, for  *)
(* reproducibility, a second run after it on the same file.                *)
(*                                                                         *)
(* A cell of the file is a sequence: <<>> is the empty field, which        *)
(* read_csv loads as NaN, <<v>> a number, and a CAUSE label is the         *)
(* sequence of its characters.  A row of the table is known by its index   *)
(* label 1..len(df); LATITUDE and LONGITUDE travel with the label and      *)
(* never decide anything, so their values are not drawn.                   *)
(***************************************************************************)
EXTENDS Integers, Sequences, FiniteSets, TLC

\* ------------------------------------------------------------------ bounds
MaxRows == 2
MaxCol == 5

\* What a run may be given for a sample size (type=int): nothing, or one
\* of these numbers.
SampleSizes == {<<>>, <<-1>>, <<0>>, <<1>>}

Years == {<<>>, <<2000>>, <<2001>>}
Sizes == {<<>>, <<5>>}
Causes == {<<>>, <<"H", "/", "U">>, <<"H", "_", "U">>}
\* groupby and sort_index order their keys; labels compare as strings.
CauseOrder == <<(<<"H", "/", "U">>), (<<"H", "_", "U">>), (<<"Human">>), (<<"Lightning">>)>>
YearOrder == <<(<<2000>>), (<<2001>>)>>

Rows == [YEAR : Years, SIZE_HA : Sizes, CAUSE : Causes]
Columns == {"LATITUDE", "LONGITUDE", "YEAR", "SIZE_HA", "CAUSE"}

SeqsUpTo(S, n) == UNION {[1..k -> S] : k \in 0..n}

\* ------------------------------------------------------- pure helpers
RECURSIVE SumSeq(_)
SumSeq(s) == IF s = <<>> THEN 0 ELSE Head(s) + SumSeq(Tail(s))

\* dropna: the cells of a column that are not NaN, in order.
RECURSIVE DropNa(_)
DropNa(s) ==
  IF s = <<>> THEN <<>>
  ELSE (IF Head(s) # <<>> THEN <<Head(s)>> ELSE <<>>) \o DropNa(Tail(s))

\* The distinct elements of s in order of first appearance.
RECURSIVE Unique(_)
Unique(s) ==
  IF s = <<>> THEN <<>>
  ELSE LET u == Unique(SubSeq(s, 1, Len(s) - 1))
       IN  IF \E i \in DOMAIN u : u[i] = s[Len(s)] THEN u ELSE Append(u, s[Len(s)])

Count(s, v) == Cardinality({i \in DOMAIN s : s[i] = v})
Column(df, c) == [i \in DOMAIN df |-> df[i][c]]

\* ------------------------------------------------ pandas aggregations
\* One entry of a counted series: its index label and its count.
Entry(k, c) == [key |-> k, n |-> c]

\* x put behind every entry whose count is at least its own.
RECURSIVE InsertDescending(_, _)
InsertDescending(x, s) ==
  IF s = <<>> THEN <<x>>
  ELSE IF Head(s).n >= x.n THEN <<Head(s)>> \o InsertDescending(x, Tail(s))
  ELSE <<x>> \o s

\* sort_values(ascending=False), stable: entries with equal counts keep the
\* order they came in.
RECURSIVE SortDescending(_)
SortDescending(s) ==
  IF s = <<>> THEN <<>>
  ELSE InsertDescending(s[Len(s)], SortDescending(SubSeq(s, 1, Len(s) - 1)))

value_counts_unsorted(col) ==
  LET vals == DropNa(col)
      keys == Unique(vals)
  IN  [i \in DOMAIN keys |-> Entry(keys[i], Count(vals, keys[i]))]

\* Series.value_counts(): NaN dropped, one entry per distinct value in order
\* of first appearance, then sorted by descending count.
value_counts(col) ==
  LET vals == DropNa(col)
      keys == Unique(vals)
  IN  SortDescending([i \in DOMAIN keys |-> Entry(keys[i], Count(vals, keys[i]))])

\* The entries of s in the order their keys have in the sequence order.
sort_index(s, order) ==
  LET Find(k) == CHOOSE i \in DOMAIN s : s[i].key = k
      present == SelectSeq(order, LAMBDA k : \E i \in DOMAIN s : s[i].key = k)
  IN  [i \in DOMAIN present |-> s[Find(present[i])]]

\* groupby(keys): rows with a NaN key are dropped.
HasBoth(r) == r.YEAR # <<>> /\ r.CAUSE # <<>>

unstack_size_unfilled(df) ==
  LET rows == SelectSeq(df, HasBoth)
      ys == SelectSeq(YearOrder, LAMBDA y : \E i \in DOMAIN rows : rows[i].YEAR = y)
      cs == SelectSeq(CauseOrder, LAMBDA c : \E i \in DOMAIN rows : rows[i].CAUSE = c)
      found == {<<rows[i].YEAR, rows[i].CAUSE>> : i \in DOMAIN rows}
  IN  [index |-> ys,
       columns |-> cs,
       cell |-> [x \in found |->
                   Cardinality({i \in DOMAIN rows :
                                  rows[i].YEAR = x[1] /\ rows[i].CAUSE = x[2]})]]

\* df.groupby(["YEAR", "CAUSE"]).size().unstack(fill_value=0): the index is the
\* years and the columns the causes of the grouped rows, both sorted; a cell
\* is the number of rows of its (year, cause) group, 0 where there is none.
unstack_size(df) ==
  LET rows == SelectSeq(df, HasBoth)
      ys == SelectSeq(YearOrder, LAMBDA y : \E i \in DOMAIN rows : rows[i].YEAR = y)
      cs == SelectSeq(CauseOrder, LAMBDA c : \E i \in DOMAIN rows : rows[i].CAUSE = c)
  IN  [index |-> ys,
       columns |-> cs,
       cell |-> [y \in {ys[i] : i \in DOMAIN ys}, c \in {cs[i] : i \in DOMAIN cs} |->
                   Cardinality({i \in DOMAIN rows :
                                  rows[i].YEAR = y /\ rows[i].CAUSE = c})]]

\* df.groupby("CAUSE"): the groups in sorted key order, each with the index
\* labels of its rows in table order.
RowLabels(df, c) == SelectSeq([i \in DOMAIN df |-> i], LAMBDA i : df[i].CAUSE = c)
groupby_cause(df) ==
  LET cs == SelectSeq(CauseOrder, LAMBDA c : \E i \in DOMAIN df : df[i].CAUSE = c)
  IN  [i \in DOMAIN cs |-> [cause |-> cs[i], labels |-> RowLabels(df, cs[i])]]

\* ---------------------------------------------------------- statistics
\* A printed number: "nan", or a value in hundredths (the :.2f format).
Nan == [nan |-> TRUE, cents |-> 0]
Fixed2(c) == [nan |-> FALSE, cents |-> c]

\* Series.mean(), skipna: the sum over the count, nan for no values; rounded
\* to the nearest hundredth.
mean2f(col) ==
  LET vals == DropNa(col)
      total == SumSeq([i \in DOMAIN vals |-> vals[i][1]])
  IN  IF vals = <<>> THEN Nan
      ELSE Fixed2((200 * total + Len(vals)) \div (2 * Len(vals)))

RECURSIVE InsertAscending(_, _)
InsertAscending(x, s) ==
  IF s = <<>> THEN <<x>>
  ELSE IF Head(s) <= x THEN <<Head(s)>> \o InsertAscending(x, Tail(s))
  ELSE <<x>> \o s

RECURSIVE SortAscending(_)
SortAscending(s) ==
  IF s = <<>> THEN <<>>
  ELSE InsertAscending(Head(s), SortAscending(Tail(s)))

\* Series.median(), skipna: the middle value, or the mean of the two middle
\* values; nan for no values.
median2f(col) ==
  LET vals == DropNa(col)
      sorted == SortAscending([i \in DOMAIN vals |-> vals[i][1]])
      k == Len(sorted)
  IN  IF k = 0 THEN Nan
      ELSE IF k % 2 = 1 THEN Fixed2(100 * sorted[(k + 1) \div 2])
      ELSE Fixed2(50 * (sorted[k \div 2] + sorted[k \div 2 + 1]))

\* ------------------------------------------------------------ sampling
\* A stand-in for numpy's generator: a state, a seeding and a step.
RngStates == 0..15
RandomState(seed) == seed % 16
RngStep(s) == (5 * s + 3) % 16

\* RandomState.permutation: Fisher-Yates from the last position down, one
\* draw of the generator per position.
RECURSIVE Shuffle(_, _, _)
Shuffle(x, i, s) ==
  IF i < 2 THEN [perm |-> x, state |-> s]
  ELSE LET s2 == RngStep(s)
           j == 1 + ((s2 \div 4) % i)
       IN  Shuffle([x EXCEPT ![i] = x[j], ![j] = x[i]], i - 1, s2)

\* DataFrame.sample(k) raises for a negative number of rows, and for more
\* rows than there are.
BadSample(k, len) == k < 0 \/ k > len
\* Without a seed it draws from the process-wide generator and moves it on.
SampleUnseeded(labels, k, seed, np) ==
  LET p == Shuffle(labels, Len(labels), np)
  IN  [locs |-> SubSeq(p.perm, 1, k), np |-> p.state]
\* DataFrame.sample(k, random_state=seed) on the rows labelled `labels`: a
\* generator of its own seeded from `seed`, the first k of a permutation of
\* the rows; the process-wide generator np is left as it was.
Sample(labels, k, seed, np) ==
  LET p == Shuffle(labels, Len(labels), RandomState(seed))
  IN  [locs |-> SubSeq(p.perm, 1, k), np |-> np]

sample_count_unclamped(n, len) == n
\* min(n, len(df)): the number of rows asked of sample.
sample_count(n, len) == IF n <= len THEN n ELSE len

\* ---------------------------------------------------------- matplotlib
\* The open figures in pyplot's order, the last one current; a figure is its
\* number and what has been drawn into it.
NextNum(f) == IF f = <<>> THEN 1 ELSE f[Len(f)].num + 1
\* plt.figure(): a new figure, made current.
figure(f) == Append(f, [num |-> NextNum(f), art |-> "blank"])
\* Drawing through pyplot goes to the current figure (gcf), which opens one
\* when none is open.
gcf(f) == IF f = <<>> THEN figure(f) ELSE f
draw(f, kind) == LET g == gcf(f) IN [g EXCEPT ![Len(g)].art = kind]
\* plt.savefig(fname): the current figure written under fname.
savefig(w, f, fname) == LET g == gcf(f) IN Append(w, [name |-> fname, art |-> g[Len(g)].art])
\* plt.close(): the current figure alone is closed.
close(f) == IF f = <<>> THEN f ELSE SubSeq(f, 1, Len(f) - 1)

\* Series.plot(kind='bar') draws into the current figure; DataFrame.plot()
\* is given no axes and opens a figure of its own.
series_plot(f, kind) == draw(f, kind)
frame_plot(f, kind) == draw(figure(f), kind)

\* str.replace("/", "_") over the characters of a name.
replace(name) == [i \in DOMAIN name |-> IF name[i] = "/" THEN "_" ELSE name[i]]

\* ----------------------------------------------------------------- state
VARIABLES
  fs,         \* the input file: whether it exists, its header, its rows
  argv,       \* the command line: each option's value, <<>> when not given
  run,        \* which run of the program this is
  prev,       \* what the run before this one sampled
  traceback,  \* standard error: the function that raised, and the exception
  pc,         \* the call main() is at
  at,         \* the place inside that call
  args,       \* the parsed command line
  df,         \* the loaded table
  out,        \* the lines printed to standard output
  figs,       \* pyplot's open figures
  written,    \* every image file written, in order
  frame,      \* the locals of the running plot function
  sampled,    \* every sample drawn: who drew it, from which rows, how many
  np_random,  \* numpy's process-wide generator
  exitcode    \* the exit status, -1 while the process runs

vars == <<fs, argv, run, prev, traceback, pc, at, args, df, out, figs, written, frame, sampled, np_random, exitcode>>

NoArgs == [file |-> "", sample_size |-> 0, cause_sample_size |-> 0, no_plots |-> FALSE]
NoFrame == [fn |-> ""]

\* The files a run may find: none, one whose CAUSE column is misnamed, and
\* well-formed ones of up to MaxRows rows.
Files ==
  {[exists |-> FALSE, header |-> {}, rows |-> <<>>],
   [exists |-> TRUE, header |-> Columns \ {"CAUSE"}, rows |-> <<>>]}
  \cup {[exists |-> TRUE, header |-> Columns, rows |-> r] : r \in SeqsUpTo(Rows, MaxRows)}

\* The states numpy's generator may be seeded to from the system's entropy.
Entropy == {1, 12}

CommandLines == [sample_size : SampleSizes, cause_sample_size : SampleSizes,
                 no_plots : BOOLEAN]

\* A process at its start: nothing parsed, loaded, printed or drawn.
Start ==
  /\ pc = "parse_args"
  /\ at = "call"
  /\ args = NoArgs
  /\ df = <<>>
  /\ out = <<>>
  /\ figs = <<>>
  /\ written = <<>>
  /\ frame = NoFrame
  /\ sampled = <<>>
  /\ traceback = <<>>
  /\ exitcode = -1

\* The code seeds every sample itself and never reads numpy's process-wide
\* generator, so a single run starts it from one state; SpecTwoRuns draws it.
Init ==
  /\ fs \in Files
  /\ argv \in CommandLines
  /\ np_random = 1
  /\ run = 1
  /\ prev = <<>>
  /\ Start

\* An exception nothing catches: the traceback is printed and the process
\* exits with status 1, everything written so far left as it is.
Raise(exception) ==
  /\ traceback' = <<pc, exception>>
  /\ pc' = "aborted"
  /\ exitcode' = 1
  /\ UNCHANGED <<fs, argv, run, prev, at, args, df, out, figs, written, frame, sampled, np_random>>

MainSkippingNothing(fn, no_plots) ==
  CASE fn = "parse_args" -> "load_data"
    [] fn = "load_data" -> "summary"
    [] fn = "summary" -> "plot_fires_per_year"
    [] fn = "plot_fires_per_year" -> "plot_causes"
    [] fn = "plot_causes" -> "plot_sample_locations"
    [] fn = "plot_sample_locations" -> "plot_yearly_by_cause"
    [] fn = "plot_yearly_by_cause" -> "plot_locations_by_cause"
    [] fn = "plot_locations_by_cause" -> "return"
MainCausesFirst(fn, no_plots) ==
  CASE fn = "parse_args" -> "load_data"
    [] fn = "load_data" -> "summary"
    [] fn = "summary" -> IF no_plots THEN "return" ELSE "plot_causes"
    [] fn = "plot_causes" -> "plot_fires_per_year"
    [] fn = "plot_fires_per_year" -> "plot_sample_locations"
    [] fn = "plot_sample_locations" -> "plot_yearly_by_cause"
    [] fn = "plot_yearly_by_cause" -> "plot_locations_by_cause"
    [] fn = "plot_locations_by_cause" -> "return"
\* main(): the call that follows the return of fn.
Main(fn, no_plots) ==
  CASE fn = "parse_args" -> "load_data"
    [] fn = "load_data" -> "summary"
    [] fn = "summary" -> IF no_plots THEN "return" ELSE "plot_fires_per_year"
    [] fn = "plot_fires_per_year" -> "plot_causes"
    [] fn = "plot_causes" -> "plot_sample_locations"
    [] fn = "plot_sample_locations" -> "plot_yearly_by_cause"
    [] fn = "plot_yearly_by_cause" -> "plot_locations_by_cause"
    [] fn = "plot_locations_by_cause" -> "return"

ReadCsvAnyHeader(file) ==
  IF ~file.exists THEN "FileNotFoundError" ELSE ""
\* read_csv(path, usecols=cols): what it raises, "" when it reads the file.
read_csv_error(file) ==
  IF ~file.exists THEN "FileNotFoundError"
  ELSE IF ~(Columns \subseteq file.header) THEN "ValueError"
  ELSE ""

\* --------------------------------------------------------------- actions
\* parse_args(): an option that is not given takes its default.
Default(opt, default) == IF opt = <<>> THEN default ELSE opt[1]
parse_args ==
  /\ pc = "parse_args"
  /\ args' = [file |-> "NFDB_point_20240613.txt",
              sample_size |-> Default(argv.sample_size, 10000),
              cause_sample_size |-> Default(argv.cause_sample_size, 5000),
              no_plots |-> argv.no_plots]
  /\ pc' = Main(pc, args'.no_plots)
  /\ UNCHANGED <<fs, argv, run, prev, traceback, at, df, out, figs, written, frame, sampled, np_random, exitcode>>

\* load_data(path): read_csv with usecols raises for a missing file and for
\* a column of usecols the header does not have.
load_data ==
  /\ pc = "load_data"
  /\ IF read_csv_error(fs) # ""
     THEN Raise(read_csv_error(fs))
     ELSE /\ df' = fs.rows
          /\ pc' = Main(pc, args.no_plots)
          /\ UNCHANGED <<fs, argv, run, prev, traceback, at, args, out, figs, written, frame, sampled, np_random, exitcode>>

\* summary(df): four prints; then main's `if not args.no_plots`.
summary ==
  /\ pc = "summary"
  /\ out' = out \o
       <<[text |-> "Total fires: ", val |-> Len(df)],
         [text |-> "Average size (ha): ", val |-> mean2f(Column(df, "SIZE_HA"))],
         [text |-> "Median size (ha): ", val |-> median2f(Column(df, "SIZE_HA"))],
         [text |-> "Causes:", val |-> value_counts(Column(df, "CAUSE"))]>>
  /\ pc' = Main(pc, args.no_plots)
  /\ UNCHANGED <<fs, argv, run, prev, traceback, at, args, df, figs, written, frame, sampled, np_random, exitcode>>

\* plot_fires_per_year(df), lines 65-66.
plot_fires_per_year_figure ==
  /\ pc = "plot_fires_per_year" /\ at = "call"
  /\ frame' = [fn |-> pc, yearly |-> sort_index(value_counts(Column(df, "YEAR")), YearOrder)]
  /\ figs' = figure(figs)
  /\ at' = "figure"
  /\ UNCHANGED <<fs, argv, run, prev, traceback, pc, args, df, out, written, sampled, np_random, exitcode>>

\* Line 67: a bar plot of an empty series raises (IndexError from the bar
\* positions; TypeError, no numeric data, in older pandas).
plot_fires_per_year_plot ==
  /\ pc = "plot_fires_per_year" /\ at = "figure"
  /\ IF frame.yearly = <<>>
     THEN Raise("IndexError")
     ELSE /\ figs' = series_plot(figs, "bar")
          /\ at' = "plot"
          /\ UNCHANGED <<fs, argv, run, prev, traceback, pc, args, df, out, written, frame, sampled, np_random, exitcode>>

\* Lines 68-73.
plot_fires_per_year_savefig ==
  /\ pc = "plot_fires_per_year" /\ at = "plot"
  /\ written' = savefig(written, figs, <<"fires_per_year", ".png">>)
  /\ figs' = close(gcf(figs))
  /\ pc' = Main(pc, args.no_plots) /\ at' = "call" /\ frame' = NoFrame
  /\ UNCHANGED <<fs, argv, run, prev, traceback, args, df, out, sampled, np_random, exitcode>>

\* plot_causes(df), lines 78-79.
plot_causes_figure ==
  /\ pc = "plot_causes" /\ at = "call"
  /\ frame' = [fn |-> pc, causes |-> value_counts(Column(df, "CAUSE"))]
  /\ figs' = figure(figs)
  /\ at' = "figure"
  /\ UNCHANGED <<fs, argv, run, prev, traceback, pc, args, df, out, written, sampled, np_random, exitcode>>

\* Line 80.
plot_causes_plot ==
  /\ pc = "plot_causes" /\ at = "figure"
  /\ IF frame.causes = <<>>
     THEN Raise("IndexError")
     ELSE /\ figs' = series_plot(figs, "bar")
          /\ at' = "plot"
          /\ UNCHANGED <<fs, argv, run, prev, traceback, pc, args, df, out, written, frame, sampled, np_random, exitcode>>

\* Lines 81-86.
plot_causes_savefig ==
  /\ pc = "plot_causes" /\ at = "plot"
  /\ written' = savefig(written, figs, <<"fire_causes", ".png">>)
  /\ figs' = close(gcf(figs))
  /\ pc' = Main(pc, args.no_plots) /\ at' = "call" /\ frame' = NoFrame
  /\ UNCHANGED <<fs, argv, run, prev, traceback, args, df, out, sampled, np_random, exitcode>>

\* plot_sample_locations(df, n), lines 91-92: sample raises for a negative
\* number of rows.
plot_sample_locations_figure ==
  /\ pc = "plot_sample_locations" /\ at = "call"
  /\ LET labels == [i \in DOMAIN df |-> i]
         k == sample_count(args.sample_size, Len(df))
         got == Sample(labels, k, 42, np_random)
     IN  IF BadSample(k, Len(labels))
         THEN Raise("ValueError")
         ELSE /\ frame' = [fn |-> pc, sample |-> got.locs]
              /\ sampled' = Append(sampled, [fn |-> pc, labels |-> labels, k |-> k,
                                             locs |-> got.locs])
              /\ np_random' = got.np
              /\ figs' = figure(figs)
              /\ at' = "figure"
              /\ UNCHANGED <<fs, argv, run, prev, traceback, pc, args, df, out, written, exitcode>>

\* Line 93.
plot_sample_locations_scatter ==
  /\ pc = "plot_sample_locations" /\ at = "figure"
  /\ figs' = draw(figs, "scatter")
  /\ at' = "plot"
  /\ UNCHANGED <<fs, argv, run, prev, traceback, pc, args, df, out, written, frame, sampled, np_random, exitcode>>

\* Lines 94-99.
plot_sample_locations_savefig ==
  /\ pc = "plot_sample_locations" /\ at = "plot"
  /\ written' = savefig(written, figs, <<"fire_locations_sample", ".png">>)
  /\ figs' = close(gcf(figs))
  /\ pc' = Main(pc, args.no_plots) /\ at' = "call" /\ frame' = NoFrame
  /\ UNCHANGED <<fs, argv, run, prev, traceback, args, df, out, sampled, np_random, exitcode>>

\* plot_yearly_by_cause(df), lines 104-105.
plot_yearly_by_cause_figure ==
  /\ pc = "plot_yearly_by_cause" /\ at = "call"
  /\ frame' = [fn |-> pc, by_year |-> unstack_size(df)]
  /\ figs' = figure(figs)
  /\ at' = "figure"
  /\ UNCHANGED <<fs, argv, run, prev, traceback, pc, args, df, out, written, sampled, np_random, exitcode>>

\* Line 106: a frame without columns has no numeric data to plot and raises.
plot_yearly_by_cause_plot ==
  /\ pc = "plot_yearly_by_cause" /\ at = "figure"
  /\ IF frame.by_year.columns = <<>>
     THEN Raise("TypeError")
     ELSE /\ figs' = frame_plot(figs, "line")
          /\ at' = "plot"
          /\ UNCHANGED <<fs, argv, run, prev, traceback, pc, args, df, out, written, frame, sampled, np_random, exitcode>>

\* Lines 107-112.
plot_yearly_by_cause_savefig ==
  /\ pc = "plot_yearly_by_cause" /\ at = "plot"
  /\ written' = savefig(written, figs, <<"fires_by_cause_year", ".png">>)
  /\ figs' = close(gcf(figs))
  /\ pc' = Main(pc, args.no_plots) /\ at' = "call" /\ frame' = NoFrame
  /\ UNCHANGED <<fs, argv, run, prev, traceback, args, df, out, sampled, np_random, exitcode>>

\* plot_locations_by_cause(df, n), line 117: the groups, taken once.
plot_locations_by_cause_groupby ==
  /\ pc = "plot_locations_by_cause" /\ at = "call"
  /\ frame' = [fn |-> pc, groups |-> groupby_cause(df), i |-> 1, sample |-> <<>>]
  /\ at' = "for"
  /\ UNCHANGED <<fs, argv, run, prev, traceback, pc, args, df, out, figs, written, sampled, np_random, exitcode>>

\* Lines 117-121: the next group, its sample and its figure; past the last
\* group the function returns.
plot_locations_by_cause_figure ==
  /\ pc = "plot_locations_by_cause" /\ at = "for"
  /\ IF frame.i > Len(frame.groups)
     THEN /\ pc' = Main(pc, args.no_plots) /\ at' = "call" /\ frame' = NoFrame
          /\ UNCHANGED <<fs, argv, run, prev, traceback, args, df, out, figs, written, sampled, np_random, exitcode>>
     ELSE LET group == frame.groups[frame.i]
              k == sample_count(args.cause_sample_size, Len(group.labels))
              got == Sample(group.labels, k, 42, np_random)
          IN  IF BadSample(k, Len(group.labels))
              THEN Raise("ValueError")
              ELSE /\ frame' = [frame EXCEPT !.sample = got.locs]
                   /\ sampled' = Append(sampled, [fn |-> pc, labels |-> group.labels,
                                                  k |-> k, locs |-> got.locs])
                   /\ np_random' = got.np
                   /\ figs' = figure(figs)
                   /\ at' = "figure"
                   /\ UNCHANGED <<fs, argv, run, prev, traceback, pc, args, df, out, written, exitcode>>

\* Line 122.
plot_locations_by_cause_scatter ==
  /\ pc = "plot_locations_by_cause" /\ at = "figure"
  /\ figs' = draw(figs, "scatter")
  /\ at' = "plot"
  /\ UNCHANGED <<fs, argv, run, prev, traceback, pc, args, df, out, written, frame, sampled, np_random, exitcode>>

\* Lines 123-129: the file name from the cause label, then the next group.
plot_locations_by_cause_savefig ==
  /\ pc = "plot_locations_by_cause" /\ at = "plot"
  /\ LET cause == frame.groups[frame.i].cause
         fname == replace(<<"fire_locations_">> \o cause \o <<".png">>)
     IN  written' = savefig(written, figs, fname)
  /\ figs' = close(gcf(figs))
  /\ frame' = [frame EXCEPT !.i = @ + 1]
  /\ at' = "for"
  /\ UNCHANGED <<fs, argv, run, prev, traceback, pc, args, df, out, sampled, np_random, exitcode>>

\* main() returns and the interpreter exits with status 0.
main_return ==
  /\ pc = "return"
  /\ pc' = "done"
  /\ exitcode' = 0
  /\ UNCHANGED <<fs, argv, run, prev, traceback, at, args, df, out, figs, written, frame, sampled, np_random>>

Next ==
  \/ parse_args
  \/ load_data
  \/ summary
  \/ plot_fires_per_year_figure
  \/ plot_fires_per_year_plot
  \/ plot_fires_per_year_savefig
  \/ plot_causes_figure
  \/ plot_causes_plot
  \/ plot_causes_savefig
  \/ plot_sample_locations_figure
  \/ plot_sample_locations_scatter
  \/ plot_sample_locations_savefig
  \/ plot_yearly_by_cause_figure
  \/ plot_yearly_by_cause_plot
  \/ plot_yearly_by_cause_savefig
  \/ plot_locations_by_cause_groupby
  \/ plot_locations_by_cause_figure
  \/ plot_locations_by_cause_scatter
  \/ plot_locations_by_cause_savefig
  \/ main_return

Spec == Init /\ [][Next]_vars

\* ------------------------------------------------- other specifications
\* Two runs of the program, one after the other, on the same file with the
\* same command line: the second process starts afresh, its numpy generator
\* seeded anew, and `prev` keeps what the first one sampled.
rerun ==
  /\ run = 1
  /\ pc \in {"done", "aborted"}
  /\ run' = 2
  /\ prev' = sampled
  /\ np_random' \in Entropy
  /\ pc' = "parse_args"
  /\ at' = "call"
  /\ args' = NoArgs
  /\ df' = <<>>
  /\ out' = <<>>
  /\ figs' = <<>>
  /\ written' = <<>>
  /\ frame' = NoFrame
  /\ sampled' = <<>>
  /\ traceback' = <<>>
  /\ exitcode' = -1
  /\ UNCHANGED <<fs, argv>>

\* Tables that differ in their causes alone, plots always made.
SampleRows == [YEAR : {<<2000>>}, SIZE_HA : {<<5>>}, CAUSE : Causes]
InitTwoRuns ==
  /\ fs \in {[exists |-> TRUE, header |-> Columns, rows |-> r] :
               r \in SeqsUpTo(SampleRows, MaxRows)}
  /\ argv \in [sample_size : SampleSizes, cause_sample_size : SampleSizes,
               no_plots : {FALSE}]
  /\ np_random \in Entropy
  /\ run = 1
  /\ prev = <<>>
  /\ Start

NextTwoRuns == Next \/ rerun

SpecTwoRuns == InitTwoRuns /\ [][NextTwoRuns]_vars

\* Longer CAUSE columns, for the frequency listing: up to MaxCol rows that
\* differ in their causes alone, the sample sizes left at their defaults.
CountRows == [YEAR : {<<2000>>}, SIZE_HA : {<<5>>},
              CAUSE : {<<>>, <<"Lightning">>, <<"Human">>}]
InitCounts ==
  /\ fs \in {[exists |-> TRUE, header |-> Columns, rows |-> r] :
               r \in SeqsUpTo(CountRows, MaxCol)}
  /\ argv \in [sample_size : {<<>>}, cause_sample_size : {<<>>}, no_plots : BOOLEAN]
  /\ np_random = 1
  /\ run = 1
  /\ prev = <<>>
  /\ Start

SpecCounts == InitCounts /\ [][Next]_vars

\* ---------------------------------------------------------------- claims
Range(q) == {q[i] : i \in DOMAIN q}
Distinct(q) == \A i, j \in DOMAIN q : q[i] = q[j] => i = j
\* The function the run is in, or was in when it raised.
Where == IF pc = "aborted" THEN traceback[1] ELSE pc
Required == {"LATITUDE", "LONGITUDE", "YEAR", "SIZE_HA", "CAUSE"}
BadFile == ~fs.exists \/ ~(Required \subseteq fs.header)
PlotCalls == {"plot_fires_per_year", "plot_causes", "plot_sample_locations",
              "plot_yearly_by_cause", "plot_locations_by_cause"}

\* C1: with --no-plots a run of a readable file never enters a plot
\* generator: it writes no image, opens no figure and draws no sample, it
\* does not abort, and it has printed the four parts of the summary when
\* main returns.
C1_NoPlotsWritesNothing ==
  argv.no_plots =>
    /\ written = <<>> /\ figs = <<>> /\ sampled = <<>>
    /\ Where \notin PlotCalls
    /\ (pc = "aborted" => BadFile)
    /\ (pc \in {"return", "done"} => Len(out) = 4 /\ out[1].val = Len(fs.rows))
    /\ (pc = "done" => exitcode = 0)

C1_Witness ==
  /\ argv.no_plots /\ pc = "done" /\ Len(df) = MaxRows
  /\ Len(out) = 4 /\ written = <<>>

\* C2: when plot_locations_by_cause has returned, the distinct files it
\* wrote are as many as the distinct cause values of the table.
C2_OneFilePerCause ==
  (pc \in {"return", "done"} /\ ~argv.no_plots) =>
    Cardinality({written[i].name : i \in 5..Len(written)})
      = Cardinality(Range(Column(df, "CAUSE")) \ {<<>>})

SampleErrors == {<<"plot_sample_locations", "ValueError">>,
                 <<"plot_locations_by_cause", "ValueError">>}
AskedOf(e) == IF e.fn = "plot_sample_locations" THEN args.sample_size
              ELSE args.cause_sample_size
SamplesWellFormed ==
  \A i \in DOMAIN sampled :
    LET e == sampled[i]
    IN  /\ Len(e.locs) <= AskedOf(e)
        /\ Distinct(e.locs)
        /\ Range(e.locs) \subseteq Range(e.labels)
        /\ (AskedOf(e) >= Len(e.labels) => Range(e.locs) = Range(e.labels))
        /\ (e.fn = "plot_sample_locations" => Range(e.labels) = DOMAIN df)
        /\ (e.fn = "plot_locations_by_cause" =>
              \E c \in Range(Column(df, "CAUSE")) \ {<<>>} :
                 Range(e.labels) = {r \in DOMAIN df : df[r].CAUSE = c})
\* C3 as stated: for every integer sample size the samples are drawn
\* without error, hold at most n rows, no row twice, and hold the whole
\* table (the whole group) when n is at least its size.
C3_Original ==
  /\ traceback \notin SampleErrors
  /\ SamplesWellFormed

\* C3, amended: for every sample size n >= 0 the sample is drawn without
\* error, holds at most n rows, no row twice, and holds the whole table (the
\* whole group) when n is at least its size.
C3_SampleOfNonNegativeSize ==
  /\ (args.sample_size >= 0 => traceback # <<"plot_sample_locations", "ValueError">>)
  /\ (args.cause_sample_size >= 0 => traceback # <<"plot_locations_by_cause", "ValueError">>)
  /\ SamplesWellFormed

C3_Witness ==
  /\ pc = "done"
  /\ \E i, j \in DOMAIN sampled :
       /\ sampled[i].fn = "plot_sample_locations"
       /\ args.sample_size > Len(df) /\ Len(sampled[i].locs) = MaxRows
       /\ sampled[j].fn = "plot_locations_by_cause"
       /\ Len(sampled[j].locs) < Len(sampled[j].labels)

\* C4: a run whose file is missing or lacks a required column prints no
\* summary line and writes no image; load_data raises, nothing catches it
\* or tries again, and the process ends with status 1.
C4_LoadFailureAborts ==
  /\ [](BadFile =>
          /\ out = <<>> /\ written = <<>> /\ df = <<>>
          /\ pc \in {"parse_args", "load_data", "aborted"}
          /\ exitcode \in {-1, 1}
          /\ (pc = "aborted" => exitcode = 1 /\ traceback[1] = "load_data"))
  /\ [][(BadFile /\ pc = "load_data") => (pc' = "aborted" /\ exitcode' = 1)]_vars
  /\ [][pc # "aborted"]_vars

C4_Witness ==
  /\ fs.exists /\ "CAUSE" \notin fs.header
  /\ pc = "aborted" /\ exitcode = 1 /\ traceback = <<"load_data", "ValueError">>

EmptyTable == ~BadFile /\ fs.rows = <<>>
\* C5: a run on a well-formed file of zero rows is not aborted, and its
\* summary is a total of 0, a mean and a median of nan and an empty cause
\* listing.
C5_EmptyTableNotFatal ==
  EmptyTable =>
    /\ pc # "aborted"
    /\ (out # <<>> =>
          /\ Len(out) = 4
          /\ out[1].val = 0 /\ out[2].val.nan /\ out[3].val.nan
          /\ out[4].val = <<>>)

FirstAt(col, v) == CHOOSE i \in DOMAIN col : col[i] = v /\ \A j \in 1..(i - 1) : col[j] # v
GoodListing(L, col) ==
  /\ Distinct([i \in DOMAIN L |-> L[i].key])
  /\ {L[i].key : i \in DOMAIN L} = Range(col) \ {<<>>}
  /\ \A i \in DOMAIN L : L[i].n = Cardinality({r \in DOMAIN col : col[r] = L[i].key})
  /\ \A i, j \in DOMAIN L :
       i < j => /\ L[i].n >= L[j].n
                /\ (L[i].n = L[j].n => FirstAt(col, L[i].key) < FirstAt(col, L[j].key))
  /\ ((Count(col, <<"Lightning">>) = 3 /\ Count(col, <<"Human">>) = 2) =>
        L = <<[key |-> <<"Lightning">>, n |-> 3], [key |-> <<"Human">>, n |-> 2]>>)
\* C6: the cause listing, as summary prints it and as plot_causes plots it,
\* has one entry per cause of the table with the number of its rows, in
\* descending order of count, causes of equal count in the order they first
\* appear; a table of 3 Lightning and 2 Human lists Lightning 3, Human 2.
C6_CausesByDescendingCount ==
  /\ (out # <<>> => GoodListing(out[4].val, Column(df, "CAUSE")))
  /\ ((pc = "plot_causes" /\ at # "call") => GoodListing(frame.causes, Column(df, "CAUSE")))

C6_Witness ==
  /\ pc = "plot_causes" /\ at = "plot" /\ Len(out) = 4
  /\ Column(df, "CAUSE") = <<(<<"Human">>), (<<"Lightning">>), (<<"Lightning">>),
                             (<<"Human">>), (<<"Lightning">>)>>
  /\ out[4].val[1].key = <<"Lightning">>

PositionsOf(e) ==
  [p \in DOMAIN e.locs |-> CHOOSE q \in DOMAIN e.labels : e.labels[q] = e.locs[p]]
\* C7: a second run on the same file with the same command line samples
\* exactly what the first did, and within a run two samples of as many rows
\* out of as many take the same positions, whatever was sampled before.
C7_SamplingReproducible ==
  /\ (run = 2 =>
        /\ Len(sampled) <= Len(prev)
        /\ \A i \in DOMAIN sampled : sampled[i] = prev[i]
        /\ (pc \in {"done", "aborted"} => sampled = prev))
  /\ \A i, j \in DOMAIN sampled :
       (Len(sampled[i].labels) = Len(sampled[j].labels) /\ sampled[i].k = sampled[j].k)
         => PositionsOf(sampled[i]) = PositionsOf(sampled[j])

C7_Witness ==
  /\ run = 2 /\ pc = "done"
  /\ \E i, j \in DOMAIN sampled :
       /\ i < j
       /\ Len(sampled[i].labels) = MaxRows /\ Len(sampled[j].labels) = MaxRows
       /\ sampled[i].k = 1 /\ sampled[j].k = 1

\* C8: at most one figure is open at any time, none is open between two
\* plot steps, and none is left open when the run is done.
C8_FiguresScoped ==
  /\ Len(figs) <= 1
  /\ (at \in {"call", "for"} => figs = <<>>)
  /\ (pc = "done" => figs = <<>>)

CallOrder == <<"parse_args", "load_data", "summary", "plot_fires_per_year", "plot_causes",
               "plot_sample_locations", "plot_yearly_by_cause",
               "plot_locations_by_cause", "return", "done">>
Pos(fn) == CHOOSE i \in DOMAIN CallOrder : CallOrder[i] = fn
FixedNames == <<(<<"fires_per_year", ".png">>), (<<"fire_causes", ".png">>),
                (<<"fire_locations_sample", ".png">>), (<<"fires_by_cause_year", ".png">>)>>
\* What C9 says of a single state: how far the output and the files are for
\* the step the run is in.
C9_StateOrder ==
  /\ (Pos(Where) <= Pos("load_data") => df = <<>>)
  /\ (Pos(Where) <= Pos("summary") => out = <<>>)
  /\ (Pos(Where) > Pos("summary") => Len(out) = 4)
  /\ (written # <<>> => Len(out) = 4)
  /\ \A i \in DOMAIN written :
       IF i <= 4 THEN written[i].name = FixedNames[i]
       ELSE written[i].name[1] = "fire_locations_"
  /\ (Where \in {"parse_args", "load_data", "summary", "plot_fires_per_year"} => Len(written) = 0)
  /\ (Where = "plot_causes" => Len(written) = 1)
  /\ (Where = "plot_sample_locations" => Len(written) = 2)
  /\ (Where = "plot_yearly_by_cause" => Len(written) = 3)
  /\ (Where = "plot_locations_by_cause" => Len(written) >= 4)
  /\ (Where \in {"return", "done"} => Len(written) >= 4 \/ argv.no_plots)
\* C9: main calls its steps in one fixed order, each after the one before it
\* has returned; the summary is whole before the first image is written, and
\* the images are written in the order fires_per_year, fire_causes,
\* fire_locations_sample, fires_by_cause_year, then the per-cause files; a
\* step that raises ends the run, leaving what was printed and written.
C9_LinearControlFlow ==
  /\ []C9_StateOrder
  /\ [][pc' # pc =>
          \/ pc' = "aborted" /\ written' = written /\ out' = out
          \/ pc' # "aborted" /\ Pos(pc') = Pos(pc) + 1
          \/ pc = "summary" /\ pc' = "return" /\ argv.no_plots /\ written = <<>>]_vars
  /\ [][pc \notin {"aborted", "done"}]_vars

C9_Witness ==
  /\ pc = "done" /\ exitcode = 0 /\ Len(out) = 4
  /\ Len(written) = 6 /\ written[6].name[1] = "fire_locations_"

InPivot == pc = "plot_yearly_by_cause" /\ at \in {"figure", "plot"}
RowsOf(y, c) == {r \in DOMAIN df : df[r].YEAR = y /\ df[r].CAUSE = c}
\* C10 as stated: the pivot has an entry for every year of the table and
\* every cause of the table, equal to the number of rows with that year and
\* that cause.
C10_Original ==
  (pc = "plot_yearly_by_cause" /\ at = "plot") =>
    \A y \in Range(Column(df, "YEAR")) \ {<<>>}, c \in Range(Column(df, "CAUSE")) \ {<<>>} :
      /\ <<y, c>> \in DOMAIN frame.by_year.cell
      /\ frame.by_year.cell[y, c] = Cardinality(RowsOf(y, c))

RECURSIVE SumCells(_, _)
SumCells(cell, S) ==
  IF S = {} THEN 0
  ELSE LET x == CHOOSE x \in S : TRUE IN cell[x] + SumCells(cell, S \ {x})
\* C10, amended: the pivot has an entry for every year and every cause found
\* among the rows that have both a year and a cause, equal to the number of
\* rows with that year and that cause, zero where there is none; its entries
\* sum to the number of rows that have both.
C10_PivotDenseOverGroupedRows ==
  InPivot =>
    LET both == {r \in DOMAIN df : df[r].YEAR # <<>> /\ df[r].CAUSE # <<>>}
        ys == {df[r].YEAR : r \in both}
        cs == {df[r].CAUSE : r \in both}
        p == frame.by_year
    IN  /\ Range(p.index) = ys /\ Distinct(p.index)
        /\ Range(p.columns) = cs /\ Distinct(p.columns)
        /\ \A y \in ys, c \in cs :
             /\ <<y, c>> \in DOMAIN p.cell
             /\ p.cell[y, c] = Cardinality(RowsOf(y, c))
        /\ DOMAIN p.cell = ys \X cs
        /\ SumCells(p.cell, DOMAIN p.cell) = Cardinality(both)

C10_Witness ==
  /\ InPivot /\ at = "plot"
  /\ \E x \in DOMAIN frame.by_year.cell : frame.by_year.cell[x] = 0

====
